---- MODULE Spec2Model ----
(***************************************************************************)
(* Document indexing and retrieval of Legal-Document-Parser.               *)
(*                                                                         *)
(* Two applications share the index directory "index":                     *)
(*   - src/api: VectorStoreService and get_retriever, working on the pair  *)
(*     faiss.index / documents.pkl that the ingestion script               *)
(*     process_and_store_pdfs_lightweight writes, and saving with          *)
(*     FAISS.save_local to the pair index.faiss / index.pkl;               *)
(*   - src/backend: the module-level _global_db with get_retriever,        *)
(*     add_documents_to_vector_store and the /ask route.                   *)
(* The variable app fixes which application a behaviour runs.              *)
(***************************************************************************)
EXTENDS Integers, Sequences, FiniteSets, TLC

VARIABLES
    app,        \* "api" or "backend": the application this run is of
    collect,    \* position and counters of the ingestion script's loops
    loop,       \* the coroutine the backend's event loop thread is running
    asks,       \* /ask requests accepted by the backend and not yet run
    faissFile,  \* index/faiss.index
    docsFile,   \* index/documents.pkl
    lcFaiss,    \* index/index.faiss (FAISS.save_local)
    lcPkl,      \* index/index.pkl   (FAISS.save_local)
    scPc,       \* position of process_and_store_pdfs_lightweight
    scDocs,     \* its local `documents`
    scEmb,      \* its local `all_embeddings`
    hpc,        \* position of each API request handler
    harg,       \* arguments of the call each handler runs
    hloc,       \* locals of the call: the retriever / the documents read
    hret,       \* what the call returned
    embModel,   \* backend _embedding_model
    globalDb,   \* backend _global_db
    retriever,  \* backend routes._retriever
    bLast,      \* the last backend call and its outcome
    ready,      \* a get_retriever of the API has returned a retriever
    ckPc,       \* position of DocumentService._chunk_text
    ckText,     \* its argument text
    ckSize,     \* its argument chunk_size
    ckOverlap,  \* its argument chunk_overlap
    ckStart,    \* its local start
    ckChunks,   \* its local chunks
    upload,     \* the upload_document request in progress and its locals
    stored,     \* the files of the uploads directory that are not tmp_ files
    records     \* the document records of the user (by file hash)

vars == <<app, collect, loop, asks, faissFile, docsFile, lcFaiss, lcPkl, scPc, scDocs, scEmb,
          hpc, harg, hloc, hret, embModel, globalDb, retriever, bLast,
          ready, ckPc, ckText, ckSize, ckOverlap, ckStart, ckChunks,
          upload, stored, records>>

diskVars == <<faissFile, docsFile, lcFaiss, lcPkl>>
scriptVars == <<scPc, scDocs, scEmb>>
handlerVars == <<hpc, harg, hloc, hret>>
backendVars == <<embModel, globalDb, retriever, bLast>>
chunkVars == <<ckPc, ckText, ckSize, ckOverlap, ckStart, ckChunks>>
uploadVars == <<upload, stored, records>>
loopVars == <<loop, asks>>

----------------------------------------------------------------------------
(* Bounds *)

MaxScriptDocs == 2      \* chunks one ingestion run collects
MaxBatch == 1           \* documents in one store_documents call
MaxChunks == 2          \* chunks of one uploaded text (backend)
MaxDbLen == 3           \* rows _global_db may grow to
MaxText == 3            \* characters of a text given to _chunk_text
MaxSize == 3            \* chunk_size and chunk_overlap given to it
MaxIter == 5            \* passes of its loop that are followed
MaxStored == 3          \* files the uploads directory may grow to
MaxAsks == 2            \* /ask requests that may wait for the event loop
MaxFiles == 3           \* files in the pdfs folder of an ingestion run
MaxPagesIn == 4         \* pages a loader returns for one file
MaxSplit == 4           \* chunks the splitter makes of one page

(* Program constants *)

DefaultK == 5           \* k=5 of get_retriever / search_similar
FallbackDim == 384      \* faiss.IndexFlatIP(384) of the fallback index

Handlers == {"h1", "h2"}
Colls == {"X", "Y"}
NoColl == "none"
Ks == {1, DefaultK}
Queries == {1, 2}
Files == {"f1", "f2"}       \* contents of uploaded files, by their SHA-256
Users == {"u1", "u2"}

----------------------------------------------------------------------------
(* Documents, vectors, files *)

\* langchain Document: page_content, and the metadata keys the code reads.
Doc(t, s, c, p) == [text |-> t, source |-> s, coll |-> c, chunk_path |-> p]

\* Document(page_content="", metadata={}) of the API's sentinel index.
ApiSentinel == Doc(0, "none", NoColl, FALSE)

\* Document("Welcome to LegalDoc...", {"source": "system"}) of the backend.
BackendSentinel == Doc(-1, "system", NoColl, FALSE)

\* MockRetriever's Document(..., {"source": "fallback"}).
FallbackDoc == Doc(-2, "fallback", NoColl, FALSE)

\* embed_documents / embed_query / model.encode: the vector of a text.
Embed(t) == [dim |-> FallbackDim, v |-> 10 * t + 1]

EmbedAll(docs) == [i \in 1..Len(docs) |-> Embed(docs[i].text)]

\* A file of the index directory.
NoFile == [st |-> "missing", data |-> <<>>]
CorruptFile == [st |-> "corrupt", data |-> <<>>]
File(d) == [st |-> "ok", data |-> d]

\* FAISS.from_documents: one vector per document, in order.
FromDocuments(docs) == [index |-> EmbedAll(docs), docs |-> docs]

\* A FAISS object of the backend (_global_db), and _global_db = None.
Db(index, docs) == [set |-> TRUE, index |-> index, docs |-> docs]
NoDb == [set |-> FALSE, index |-> <<>>, docs |-> <<>>]

----------------------------------------------------------------------------
(* Search *)

Abs(x) == IF x < 0 THEN -x ELSE x

\* Distance of stored vector i from the query vector; nearer is better and
\* equal distances go by position.
Nearer(index, qv, i, j) ==
    LET di == Abs(index[i].v - qv.v)
        dj == Abs(index[j].v - qv.v)
    IN  di < dj \/ (di = dj /\ i < j)

Ranked(index, qv) ==
    [r \in 1..Len(index) |->
        CHOOSE i \in 1..Len(index) :
            Cardinality({j \in 1..Len(index) : Nearer(index, qv, j, i)}) = r - 1]

\* faiss index.search(query_vector, k): k positions (0-based), nearest
\* first, padded with -1 when fewer than k vectors are stored.
FaissSearch(index, qv, k) ==
    [r \in 1..k |-> IF r <= Len(index) THEN Ranked(index, qv)[r] - 1 ELSE -1]

\* Python list indexing documents[idx] for -len <= idx < len.
PyIndex(docs, idx) == IF idx >= 0 THEN docs[idx + 1] ELSE docs[Len(docs) + idx + 1]

RECURSIVE Hydrate(_, _)
\* The loop of CustomRetriever.get_relevant_documents over indices[0].
Hydrate(docs, indices) ==
    IF indices = <<>> THEN <<>>
    ELSE LET idx == Head(indices)
             rest == Hydrate(docs, Tail(indices))
         IN  IF idx < Len(docs) /\ PyIndex(docs, idx).chunk_path
             THEN <<PyIndex(docs, idx)>> \o rest
             ELSE rest

\* CustomRetriever.get_relevant_documents once the query is embedded.  On an
\* empty documents list, documents[-1] raises IndexError and the outer
\* except returns [].
CustomSearch(index, docs, qv, k) ==
    IF docs = <<>> THEN <<>> ELSE Hydrate(docs, FaissSearch(index, qv, k))

RECURSIVE LcHydrate(_, _)
LcHydrate(docs, indices) ==
    IF indices = <<>> THEN <<>>
    ELSE IF Head(indices) = -1 THEN LcHydrate(docs, Tail(indices))
         ELSE <<docs[Head(indices) + 1]>> \o LcHydrate(docs, Tail(indices))

\* A position the docstore of a FAISS object cannot resolve.
LcSearchRaises(db, qv, k) ==
    \E r \in 1..k : FaissSearch(db.index, qv, k)[r] >= Len(db.docs)

\* LcSearch with the -1 padding of index.search taken as a list index.
LcSearchPadded(db, qv, k) == Hydrate([i \in 1..Len(db.docs) |->
                                        [db.docs[i] EXCEPT !.chunk_path = TRUE]],
                                    FaissSearch(db.index, qv, k))

\* db.as_retriever(search_kwargs={"k": k}) searching: positions of -1 are
\* skipped, the others are looked up in the docstore.
LcSearch(db, qv, k) == LcHydrate(db.docs, FaissSearch(db.index, qv, k))

FilterColl(docs, c) == SelectSeq(docs, LAMBDA d : d.coll = c)
DropColl(docs, c) == SelectSeq(docs, LAMBDA d : d.coll # c)

----------------------------------------------------------------------------
(* Initial state *)

\* An index directory deployed with the API: documents that carry the
\* collection_id and chunk_path metadata the API code reads.
ShippedDocs == <<Doc(4, "shipped", "X", TRUE), Doc(5, "shipped", "Y", TRUE)>>

NoArg == [op |-> "none", q |-> 0, k |-> 0, coll |-> NoColl, batch |-> <<>>]
NoLoc == [kind |-> "none", index |-> <<>>, docs |-> <<>>]
NoRet == [st |-> "none", val |-> FALSE, out |-> <<>>, embedded |-> FALSE]
NoLast == [op |-> "none", outcome |-> "none", out |-> <<>>, pre |-> NoDb,
           kind |-> "none", why |-> "none"]

\* No run is collecting: pc, the files begun, the pages kept of the file
\* at hand and those gone through, the chunks kept of the page at hand
\* and those taken, total_chunks, and len(all_embeddings).
NoCollect == [pc |-> "idle", files |-> 0, pages |-> 0, page |-> 0,
              split |-> 0, taken |-> 0, total |-> 0, emb |-> 0]

\* No upload_document request is running.
NoUpload == [pc |-> "idle", file |-> "none", user |-> "none", tmp |-> FALSE,
             tmpPath |-> FALSE, response |-> "none", indexing |-> "none"]

Init ==
    /\ app \in {"api", "backend"}
    /\ \/ faissFile = NoFile /\ docsFile = NoFile
       \/ /\ app = "api"
          /\ \E n \in 1..Len(ShippedDocs) :
                /\ faissFile = File(EmbedAll(SubSeq(ShippedDocs, 1, n)))
                /\ docsFile = File(SubSeq(ShippedDocs, 1, n))
    /\ lcFaiss = NoFile
    /\ lcPkl = NoFile
    /\ scPc = "idle"
    /\ scDocs = <<>>
    /\ scEmb = <<>>
    /\ hpc = [h \in Handlers |-> "idle"]
    /\ harg = [h \in Handlers |-> NoArg]
    /\ hloc = [h \in Handlers |-> NoLoc]
    /\ hret = [h \in Handlers |-> NoRet]
    /\ embModel = "none"
    /\ globalDb = NoDb
    /\ retriever = "none"
    /\ bLast = NoLast
    /\ ready = FALSE
    /\ ckPc = "idle"
    /\ ckText = <<>>
    /\ ckSize = 0
    /\ ckOverlap = 0
    /\ ckStart = 0
    /\ ckChunks = <<>>
    /\ upload = NoUpload
    /\ stored = [f \in Files |-> 0]
    /\ records = {}
    /\ loop = "idle"
    /\ asks = 0
    /\ collect = NoCollect

----------------------------------------------------------------------------
(* process_and_store_pdfs_lightweight (the ingestion script) *)

\* The chunks a run collects: source and page metadata only.
ScriptDocs(n) == [i \in 1..n |-> Doc(i, "pdf", NoColl, FALSE)]

\* The limits of pdf_config.get_config('free'), which the script reads.
MAX_PAGES == 3
MAX_CHUNKS == 20
MAX_CHUNKS_PER_PAGE == 3
BATCH_SIZE == 3

\* Outcomes of writing a file: written, the open fails (file untouched), or
\* the write breaks off after the file was truncated.
WriteOutcomes == {"ok", "fail_open", "fail_partial"}

Written(file, new, outcome) ==
    CASE outcome = "ok" -> File(new)
      [] outcome = "fail_open" -> file
      [] outcome = "fail_partial" -> CorruptFile

\* Lines 57-154: collect the chunks; with none, nothing is written.
ScStart ==
    /\ app = "api"
    /\ scPc = "idle"
    /\ \E n \in 0..MaxScriptDocs :
          /\ scDocs' = ScriptDocs(n)
          /\ scPc' = IF n = 0 THEN "idle" ELSE "embed"
    /\ scEmb' = <<>>
    /\ UNCHANGED <<app, collect, loopVars, uploadVars, chunkVars, ready, diskVars, handlerVars, backendVars>>

\* Lines 160-186: load the model and embed; a failure goes to the fallback.
ScEmbed ==
    /\ scPc = "embed"
    /\ \E ok \in BOOLEAN :
          IF ok
          THEN scEmb' = EmbedAll(scDocs) /\ scPc' = "write_index"
          ELSE scEmb' = scEmb /\ scPc' = "fb_index"
    /\ UNCHANGED <<app, collect, loopVars, uploadVars, chunkVars, ready, diskVars, scDocs, handlerVars, backendVars>>

\* Line 203: faiss.write_index(index, "index/faiss.index").
ScWriteIndex ==
    /\ scPc = "write_index"
    /\ \E o \in WriteOutcomes :
          /\ faissFile' = Written(faissFile, scEmb, o)
          /\ scPc' = IF o = "ok" THEN "write_docs" ELSE "fb_index"
    /\ UNCHANGED <<app, collect, loopVars, uploadVars, chunkVars, ready, docsFile, lcFaiss, lcPkl, scDocs, scEmb, handlerVars,
                   backendVars>>

\* Lines 205-206: pickle.dump(documents) to "index/documents.pkl".
ScWriteDocs ==
    /\ scPc = "write_docs"
    /\ \E o \in WriteOutcomes :
          /\ docsFile' = Written(docsFile, scDocs, o)
          /\ scPc' = IF o = "ok" THEN "idle" ELSE "fb_index"
          /\ scDocs' = IF o = "ok" THEN <<>> ELSE scDocs
          /\ scEmb' = IF o = "ok" THEN <<>> ELSE scEmb
    /\ UNCHANGED <<app, collect, loopVars, uploadVars, chunkVars, ready, faissFile, lcFaiss, lcPkl, handlerVars, backendVars>>

\* Lines 222-223: the fallback writes an empty IndexFlatIP(384).
ScFallbackIndex ==
    /\ scPc = "fb_index"
    /\ \E o \in WriteOutcomes :
          /\ faissFile' = Written(faissFile, <<>>, o)
          /\ scPc' = IF o = "ok" THEN "fb_docs" ELSE "idle"
    /\ scDocs' = <<>>
    /\ scEmb' = <<>>
    /\ UNCHANGED <<app, collect, loopVars, uploadVars, chunkVars, ready, docsFile, lcFaiss, lcPkl, handlerVars, backendVars>>

\* Lines 224-225: the fallback dumps [] to documents.pkl.
ScFallbackDocs ==
    /\ scPc = "fb_docs"
    /\ \E o \in WriteOutcomes :
          docsFile' = Written(docsFile, <<>>, o)
    /\ scPc' = "idle"
    /\ UNCHANGED <<app, collect, loopVars, uploadVars, chunkVars, ready, faissFile, lcFaiss, lcPkl, scDocs, scEmb, handlerVars,
                   backendVars>>

\* Lines 101-103: pages = pages[:MAX_PAGES] when there are more.
LimitPages(p) == IF p > MAX_PAGES THEN MAX_PAGES ELSE p

\* A splitter result taken whole.
AllSplit(n) == n

\* Lines 123-124: split_docs = split_docs[:MAX_CHUNKS_PER_PAGE] when there
\* are more.
LimitSplit(n) == IF n > MAX_CHUNKS_PER_PAGE THEN MAX_CHUNKS_PER_PAGE ELSE n

\* Line 174: len(texts_for_embedding[i:i + BATCH_SIZE]) of n texts.
BatchLen(i, n) == IF i + BATCH_SIZE > n THEN n - i ELSE BATCH_SIZE

\* Lines 65-66: documents = [], total_chunks = 0.  A run is followed from
\* an index directory of at most MaxScriptDocs chunks.
ColStart ==
    /\ app = "api"
    /\ scPc = "idle" /\ collect.pc = "idle"
    /\ Len(faissFile.data) <= MaxScriptDocs
    /\ Len(docsFile.data) <= MaxScriptDocs
    /\ collect' = [NoCollect EXCEPT !.pc = "file"]
    /\ UNCHANGED <<app, loopVars, uploadVars, chunkVars, ready, diskVars,
                   scriptVars, handlerVars, backendVars>>

\* Lines 69-103: the next file.  It is skipped (too large, unsupported,
\* or the loader raises) or its pages are loaded and limited; after the
\* last file the run goes on to line 154.
ColFile ==
    /\ collect.pc = "file"
    /\ \/ /\ collect.files < MaxFiles
          /\ \/ collect' = [collect EXCEPT !.files = @ + 1]
             \/ \E p \in 0..MaxPagesIn :
                   collect' = [collect EXCEPT !.files = @ + 1, !.pc = "page",
                                              !.pages = LimitPages(p),
                                              !.page = 0]
       \/ collect' = IF collect.total = 0 THEN NoCollect
                     ELSE [collect EXCEPT !.pc = "embed", !.files = 0]
    /\ UNCHANGED <<app, loopVars, uploadVars, chunkVars, ready, diskVars,
                   scriptVars, handlerVars, backendVars>>

\* Lines 106-124: the next page of the file; the loop is left when the
\* pages are used up or total_chunks has reached MAX_CHUNKS.  Splitting
\* may raise, which goes on with the next page.  After the loop the
\* pages are deleted (line 147).
ColPage ==
    /\ collect.pc = "page"
    /\ IF collect.page = collect.pages \/ collect.total >= MAX_CHUNKS
       THEN collect' = [collect EXCEPT !.pc = "file", !.pages = 0, !.page = 0]
       ELSE \/ collect' = [collect EXCEPT !.page = @ + 1]
            \/ \E n \in 0..MaxSplit :
                  collect' = [collect EXCEPT !.page = @ + 1, !.pc = "take",
                                             !.split = LimitSplit(n),
                                             !.taken = 0]
    /\ UNCHANGED <<app, loopVars, uploadVars, chunkVars, ready, diskVars,
                   scriptVars, handlerVars, backendVars>>

\* Lines 126-144: one chunk of the page is appended to documents; the
\* loop over the chunks is left at MAX_CHUNKS, and so is the loop over
\* the pages; split_docs and pages are deleted on the way (lines 136
\* and 147).
ColTake ==
    /\ collect.pc = "take"
    /\ IF collect.taken < collect.split
       THEN collect' =
               IF collect.total + 1 >= MAX_CHUNKS
               THEN [collect EXCEPT !.total = @ + 1, !.pc = "file",
                                    !.split = 0, !.taken = 0,
                                    !.pages = 0, !.page = 0]
               ELSE [collect EXCEPT !.taken = @ + 1, !.total = @ + 1]
       ELSE collect' = [collect EXCEPT !.pc = "page", !.split = 0,
                                       !.taken = 0]
    /\ UNCHANGED <<app, loopVars, uploadVars, chunkVars, ready, diskVars,
                   scriptVars, handlerVars, backendVars>>

\* Lines 160-197: the model is loaded and the texts are embedded batch by
\* batch; a failure goes to the fallback of line 215.  With every batch
\* embedded, the index is made of all_embeddings and the run is at line
\* 203.
ColEmbed ==
    /\ collect.pc = "embed"
    /\ LET docs == ScriptDocs(collect.total)
       IN  IF collect.emb < collect.total
           THEN \/ /\ collect' = [collect EXCEPT
                                    !.emb = @ + BatchLen(@, collect.total)]
                   /\ UNCHANGED scriptVars
                \/ /\ collect' = NoCollect
                   /\ scPc' = "fb_index"
                   /\ scDocs' = docs
                   /\ scEmb' = <<>>
           ELSE /\ collect' = NoCollect
                /\ scPc' = "write_index"
                /\ scDocs' = docs
                /\ scEmb' = [i \in 1..collect.emb |-> Embed(docs[i].text)]
    /\ UNCHANGED <<app, loopVars, uploadVars, chunkVars, ready, diskVars,
                   handlerVars, backendVars>>

Collect ==
    \/ ColStart
    \/ ColFile
    \/ ColPage
    \/ ColTake
    \/ ColEmbed

Script ==
    \/ ScStart
    \/ ScEmbed
    \/ ScWriteIndex
    \/ ScWriteDocs
    \/ ScFallbackIndex
    \/ ScFallbackDocs

----------------------------------------------------------------------------
(* src/api/app/services/vector_store.py: search_similar and get_retriever *)

Exists(file) == file.st # "missing"

Returned(v, docs, e) == [st |-> "returned", val |-> v, out |-> docs, embedded |-> e]

\* The sentinel index of get_retriever: FAISS.from_documents of one empty
\* document.
SentinelLoc == [kind |-> "sentinel", index |-> EmbedAll(<<ApiSentinel>>),
                docs |-> <<ApiSentinel>>]

\* search_similar calls get_retriever(k); line 37 tests for the two files.
SearchStart(h) ==
    /\ app = "api"
    /\ hpc[h] = "idle"
    /\ harg' = [harg EXCEPT ![h].op = "search"]
    /\ hpc' = [hpc EXCEPT ![h] = IF Exists(faissFile) /\ Exists(docsFile)
                                 THEN "read_index" ELSE "sentinel"]
    /\ UNCHANGED <<app, collect, loopVars, uploadVars, chunkVars, ready, diskVars, scriptVars, hloc, hret, backendVars>>

\* Line 41: faiss.read_index; a file that is gone or unreadable raises.
GetReadIndex(h) ==
    /\ hpc[h] = "read_index"
    /\ IF faissFile.st = "ok"
       THEN /\ hloc' = [hloc EXCEPT ![h].index = faissFile.data]
            /\ hpc' = [hpc EXCEPT ![h] = "read_docs"]
       ELSE /\ hloc' = hloc
            /\ hpc' = [hpc EXCEPT ![h] = "except"]
    /\ UNCHANGED <<app, collect, loopVars, uploadVars, chunkVars, ready, diskVars, scriptVars, harg, hret, backendVars>>

\* Lines 42-43 and 78: pickle.load, then the CustomRetriever.
GetReadDocs(h) ==
    /\ hpc[h] = "read_docs"
    /\ IF docsFile.st = "ok"
       THEN /\ hloc' = [hloc EXCEPT ![h].docs = docsFile.data,
                                    ![h].kind = "custom"]
            /\ hpc' = [hpc EXCEPT ![h] = "search"]
            /\ ready' = TRUE
       ELSE /\ hloc' = [hloc EXCEPT ![h] = NoLoc]
            /\ hpc' = [hpc EXCEPT ![h] = "except"]
            /\ ready' = ready
    /\ UNCHANGED <<app, collect, loopVars, uploadVars, chunkVars, diskVars, scriptVars, harg, hret, backendVars>>

\* A get_retriever that saved its sentinel index with save_local, as the
\* backend's get_retriever does.
GetSentinelSaved(h) ==
    /\ hpc[h] = "sentinel"
    /\ \E ok \in BOOLEAN :
          IF ok
          THEN /\ hloc' = [hloc EXCEPT ![h] = SentinelLoc]
               /\ hpc' = [hpc EXCEPT ![h] = "search"]
               /\ lcFaiss' = File(SentinelLoc.index)
               /\ lcPkl' = File(SentinelLoc.docs)
               /\ ready' = TRUE
          ELSE /\ hloc' = hloc
               /\ hpc' = [hpc EXCEPT ![h] = "except"]
               /\ UNCHANGED <<lcFaiss, lcPkl>>
               /\ ready' = ready
    /\ UNCHANGED <<app, collect, loopVars, uploadVars, chunkVars, faissFile, docsFile, scriptVars, harg, hret, backendVars>>

\* Lines 80-84: no files, so a sentinel index; embedding it may raise.
GetSentinel(h) ==
    /\ hpc[h] = "sentinel"
    /\ \E ok \in BOOLEAN :
          IF ok
          THEN /\ hloc' = [hloc EXCEPT ![h] = SentinelLoc]
               /\ hpc' = [hpc EXCEPT ![h] = "search"]
               /\ ready' = TRUE
          ELSE /\ hloc' = hloc
               /\ hpc' = [hpc EXCEPT ![h] = "except"]
               /\ ready' = ready
    /\ UNCHANGED <<app, collect, loopVars, uploadVars, chunkVars, diskVars, scriptVars, harg, hret, backendVars>>

\* Lines 85-90: the except branch builds the sentinel index again; when
\* that raises too, search_similar's except returns [].
GetExcept(h) ==
    /\ hpc[h] = "except"
    /\ \E ok \in BOOLEAN :
          IF ok
          THEN /\ hloc' = [hloc EXCEPT ![h] = SentinelLoc]
               /\ hpc' = [hpc EXCEPT ![h] = "search"]
               /\ hret' = hret
               /\ ready' = TRUE
          ELSE /\ hloc' = hloc
               /\ hpc' = [hpc EXCEPT ![h] = "done"]
               /\ hret' = [hret EXCEPT ![h] = Returned(FALSE, <<>>, FALSE)]
               /\ ready' = ready
    /\ UNCHANGED <<app, collect, loopVars, uploadVars, chunkVars, diskVars, scriptVars, harg, backendVars>>

\* What the retriever of search_similar finds for an embedded query.
Retrieved(loc, q, k) ==
    IF loc.kind = "custom"
    THEN CustomSearch(loc.index, loc.docs, Embed(q), k)
    ELSE LcSearch(loc, Embed(q), k)

\* Lines 187-205: get_relevant_documents, then the collection filter.  When
\* embedding the query raises, the CustomRetriever returns [] and for the
\* sentinel retriever search_similar's except returns [].  The arguments
\* query, k and collection_id of the call are drawn here, where they are
\* first used.
SearchRun(h) ==
    /\ hpc[h] = "search"
    /\ \E q \in Queries, k \in Ks, c \in Colls \cup {NoColl}, ok \in BOOLEAN :
          LET found == IF ok THEN Retrieved(hloc[h], q, k) ELSE <<>>
              results == IF c # NoColl THEN FilterColl(found, c) ELSE found
          IN  /\ harg' = [harg EXCEPT ![h].q = q, ![h].k = k, ![h].coll = c]
              /\ hret' = [hret EXCEPT ![h] = Returned(FALSE, results, ok)]
    /\ hpc' = [hpc EXCEPT ![h] = "done"]
    /\ UNCHANGED <<app, collect, loopVars, uploadVars, chunkVars, ready, diskVars, scriptVars, hloc, backendVars>>

\* The call is over; the handler takes the next request.
HandlerReturn(h) ==
    /\ hpc[h] = "done"
    /\ hpc' = [hpc EXCEPT ![h] = "idle"]
    /\ harg' = [harg EXCEPT ![h] = NoArg]
    /\ hloc' = [hloc EXCEPT ![h] = NoLoc]
    /\ hret' = [hret EXCEPT ![h] = NoRet]
    /\ UNCHANGED <<app, collect, loopVars, uploadVars, chunkVars, ready, diskVars, scriptVars, backendVars>>

Search(h) ==
    \/ SearchStart(h)
    \/ GetReadIndex(h)
    \/ GetReadDocs(h)
    \/ GetSentinel(h)
    \/ GetExcept(h)
    \/ SearchRun(h)

----------------------------------------------------------------------------
(* VectorStoreService.store_documents and delete_collection *)

\* The documents of a store_documents call: each request brings its own
\* content; collection_id, when given, is put into the metadata.
StoreDocs(h, n, c) ==
    [i \in 1..n |-> Doc((IF h = "h1" THEN 60 ELSE 70) + i, "upload", c, FALSE)]

\* Lines 124-137: an empty documents list returns False.
StoreStart(h) ==
    /\ app = "api"
    /\ hpc[h] = "idle"
    /\ \E n \in 0..MaxBatch, c \in Colls \cup {NoColl} :
          /\ harg' = [harg EXCEPT ![h].op = "store", ![h].coll = c,
                                  ![h].batch = StoreDocs(h, n, c)]
          /\ IF n = 0
             THEN /\ hpc' = [hpc EXCEPT ![h] = "done"]
                  /\ hret' = [hret EXCEPT ![h] = Returned(FALSE, <<>>, FALSE)]
             ELSE /\ hpc' = [hpc EXCEPT ![h] = "st_read"]
                  /\ hret' = hret
    /\ UNCHANGED <<app, collect, loopVars, uploadVars, chunkVars, ready, diskVars, scriptVars, hloc, backendVars>>

\* _store_documents_sync, lines 157-162: with faiss.index present, both
\* files are read (raising when one cannot be); the documents read are
\* the existing ones.
StoreRead(h) ==
    /\ hpc[h] = "st_read"
    /\ IF ~Exists(faissFile)
       THEN /\ hloc' = [hloc EXCEPT ![h].docs = <<>>]
            /\ hpc' = [hpc EXCEPT ![h] = "st_save"]
            /\ hret' = hret
       ELSE IF faissFile.st = "ok" /\ docsFile.st = "ok"
       THEN /\ hloc' = [hloc EXCEPT ![h].docs = docsFile.data]
            /\ hpc' = [hpc EXCEPT ![h] = "st_save"]
            /\ hret' = hret
       ELSE /\ hloc' = hloc
            /\ hpc' = [hpc EXCEPT ![h] = "done"]
            /\ hret' = [hret EXCEPT ![h] = Returned(FALSE, <<>>, FALSE)]
    /\ UNCHANGED <<app, collect, loopVars, uploadVars, chunkVars, ready, diskVars, scriptVars, harg, backendVars>>

\* _store_documents_sync, lines 165-174: FAISS.from_documents over the
\* existing and the new documents, then db.save_local, which writes
\* index.faiss and index.pkl.  Embedding or saving may raise: False.
StoreSave(h) ==
    /\ hpc[h] = "st_save"
    /\ \E o \in {"ok", "embed_fail", "save_fail"} :
          LET db == FromDocuments(hloc[h].docs \o harg[h].batch)
          IN  IF o = "ok"
              THEN /\ lcFaiss' = File(db.index)
                   /\ lcPkl' = File(db.docs)
                   /\ hret' = [hret EXCEPT ![h] = Returned(TRUE, <<>>, TRUE)]
              ELSE /\ UNCHANGED <<lcFaiss, lcPkl>>
                   /\ hret' = [hret EXCEPT ![h] =
                                  Returned(FALSE, <<>>, o # "embed_fail")]
    /\ hpc' = [hpc EXCEPT ![h] = "done"]
    /\ UNCHANGED <<app, collect, loopVars, uploadVars, chunkVars, ready, faissFile, docsFile, scriptVars, harg, hloc, backendVars>>

Store(h) ==
    \/ StoreStart(h)
    \/ StoreRead(h)
    \/ StoreSave(h)

\* delete_collection, lines 212-231: read documents.pkl, drop the
\* collection, and store the survivors or go on to remove the files.
DeleteStart(h) ==
    /\ app = "api"
    /\ hpc[h] = "idle"
    /\ \E c \in Colls :
          LET filtered == DropColl(docsFile.data, c)
          IN  /\ harg' = [harg EXCEPT ![h].op = "delete", ![h].coll = c,
                             ![h].batch = IF docsFile.st = "ok" THEN filtered
                                          ELSE <<>>]
              /\ IF docsFile.st = "missing"
                    \/ (docsFile.st = "ok" /\ Len(filtered) = Len(docsFile.data))
                 THEN /\ hpc' = [hpc EXCEPT ![h] = "done"]
                      /\ hret' = [hret EXCEPT ![h] = Returned(TRUE, <<>>, FALSE)]
                 ELSE IF docsFile.st = "corrupt"
                 THEN /\ hpc' = [hpc EXCEPT ![h] = "done"]
                      /\ hret' = [hret EXCEPT ![h] = Returned(FALSE, <<>>, FALSE)]
                 ELSE /\ hpc' = [hpc EXCEPT ![h] =
                                    IF filtered # <<>> THEN "st_read"
                                    ELSE "rm_index"]
                      /\ hret' = hret
    /\ UNCHANGED <<app, collect, loopVars, uploadVars, chunkVars, ready, diskVars, scriptVars, hloc, backendVars>>

\* Lines 234-235: os.remove("index/faiss.index") when it exists.
DeleteRemoveIndex(h) ==
    /\ hpc[h] = "rm_index"
    /\ faissFile' = NoFile
    /\ hpc' = [hpc EXCEPT ![h] = "rm_docs"]
    /\ UNCHANGED <<app, collect, loopVars, uploadVars, chunkVars, ready, docsFile, lcFaiss, lcPkl, scriptVars, harg, hloc, hret,
                   backendVars>>

\* Lines 236-241: os.remove("index/documents.pkl") when it exists; True.
DeleteRemoveDocs(h) ==
    /\ hpc[h] = "rm_docs"
    /\ docsFile' = NoFile
    /\ hpc' = [hpc EXCEPT ![h] = "done"]
    /\ hret' = [hret EXCEPT ![h] = Returned(TRUE, <<>>, FALSE)]
    /\ UNCHANGED <<app, collect, loopVars, uploadVars, chunkVars, ready, faissFile, lcFaiss, lcPkl, scriptVars, harg, hloc,
                   backendVars>>

Delete(h) ==
    \/ DeleteStart(h)
    \/ DeleteRemoveIndex(h)
    \/ DeleteRemoveDocs(h)

----------------------------------------------------------------------------
(* src/backend/app/core/vector_store.py and the /ask route *)

\* get_embedding_model, lines 13-35: the loaded model is kept; otherwise
\* paraphrase-MiniLM-L3-v2 is tried, then all-MiniLM-L6-v2, and when both
\* fail the call raises ("fail").
LoadModel == IF embModel = "none" THEN {"L3", "L6", "fail"} ELSE {embModel}

\* FAISS.load_local reads index.faiss and index.pkl.
CanLoad == lcFaiss.st = "ok" /\ lcPkl.st = "ok"

SentinelDb == Db(EmbedAll(<<BackendSentinel>>), <<BackendSentinel>>)

\* get_retriever(k), lines 42-81; r is what it returns: a retriever over
\* _global_db ("db") or the MockRetriever ("mock").
GetRetriever(r) ==
    \E m \in LoadModel :
       IF m = "fail"
       THEN /\ r = "mock"
            /\ UNCHANGED <<embModel, globalDb, lcFaiss, lcPkl>>
       ELSE /\ embModel' = m
            /\ IF globalDb.set
               THEN /\ r = "db"
                    /\ UNCHANGED <<globalDb, lcFaiss, lcPkl>>
               ELSE IF Exists(lcFaiss) /\ CanLoad
               THEN /\ r = "db"
                    /\ globalDb' = Db(lcFaiss.data, lcPkl.data)
                    /\ UNCHANGED <<lcFaiss, lcPkl>>
               ELSE \E o \in {"ok", "embed_fail", "save_fail"} :
                       CASE o = "ok" ->
                              /\ r = "db"
                              /\ globalDb' = SentinelDb
                              /\ lcFaiss' = File(SentinelDb.index)
                              /\ lcPkl' = File(SentinelDb.docs)
                         [] o = "embed_fail" ->
                              /\ r = "mock"
                              /\ UNCHANGED <<globalDb, lcFaiss, lcPkl>>
                         [] o = "save_fail" ->
                              /\ r = "mock"
                              /\ globalDb' = SentinelDb
                              /\ UNCHANGED <<lcFaiss, lcPkl>>

Last(op, outcome, out, pre, kind, why) ==
    [op |-> op, outcome |-> outcome, out |-> out, pre |-> pre, kind |-> kind,
     why |-> why]

\* ask_question, routes.py lines 100-171, with get_lazy_retriever (lines
\* 22-26): the retriever is created on the first question and kept.  An
\* exception of retriever.invoke is answered with HTTP 500.
AskRetrieve ==
    \E r \in {"db", "mock"}, q \in Queries, ok \in BOOLEAN :
          /\ IF retriever = "none"
             THEN GetRetriever(r) /\ retriever' = r
             ELSE /\ r = retriever
                  /\ UNCHANGED <<embModel, globalDb, lcFaiss, lcPkl, retriever>>
          /\ bLast' =
               IF r = "mock"
               THEN Last("ask", "ok", <<FallbackDoc>>, globalDb, "mock", "none")
               ELSE IF ~ok
               THEN Last("ask", "http500", <<>>, globalDb, "db", "embed")
               ELSE IF LcSearchRaises(globalDb', Embed(q), DefaultK)
               THEN Last("ask", "http500", <<>>, globalDb, "db", "lookup")
               ELSE Last("ask", "ok", LcSearch(globalDb', Embed(q), DefaultK),
                         globalDb, "db", "none")

\* A question on its own.
AskQuestion ==
    /\ app = "backend"
    /\ AskRetrieve
    /\ UNCHANGED <<app, collect, loopVars, uploadVars, chunkVars, ready, faissFile, docsFile, scriptVars, handlerVars>>

\* The chunks of an uploaded text: Document(chunk, {"source": file_path}).
ChunkDocs(base, n) == [i \in 1..n |-> Doc(100 + base + i, "upload", NoColl, FALSE)]

\* FAISS.merge_from: the vectors and documents of the new object are
\* appended.
MergeFrom(db, new) == Db(db.index \o new.index, db.docs \o new.docs)

\* add_documents_to_vector_store, lines 83-138.  The model is loaded, the
\* chunks are embedded into a new FAISS object, _global_db is created from
\* it or merged with it, and the index is saved; any exception is raised
\* again.
AddToVectorStore ==
    \E n \in 1..MaxChunks, m \in LoadModel,
       o \in {"ok", "embed_fail", "save_fail"} :
          LET docs == ChunkDocs(Len(globalDb.docs), n)
              new == Db(EmbedAll(docs), docs)
              merged == IF globalDb.set THEN MergeFrom(globalDb, new) ELSE new
          IN  /\ Len(globalDb.docs) + n <= MaxDbLen
              /\ Len(globalDb.index) + n <= MaxDbLen
              /\ IF m = "fail"
                 THEN /\ UNCHANGED <<embModel, globalDb, lcFaiss, lcPkl>>
                      /\ bLast' = Last("add", "raised", docs, globalDb, "none",
                                       "model")
                 ELSE /\ embModel' = m
                      /\ CASE o = "ok" ->
                                /\ globalDb' = merged
                                /\ lcFaiss' = File(merged.index)
                                /\ lcPkl' = File(merged.docs)
                                /\ bLast' = Last("add", "ok", docs, globalDb,
                                                 "none", "none")
                           [] o = "embed_fail" ->
                                /\ UNCHANGED <<globalDb, lcFaiss, lcPkl>>
                                /\ bLast' = Last("add", "raised", docs, globalDb,
                                                 "none", "embed")
                           [] o = "save_fail" ->
                                /\ globalDb' = merged
                                /\ UNCHANGED <<lcFaiss, lcPkl>>
                                /\ bLast' = Last("add", "raised", docs, globalDb,
                                                 "none", "save")

\* A call of add_documents_to_vector_store on its own.
AddDocuments ==
    /\ app = "backend"
    /\ AddToVectorStore
    /\ UNCHANGED <<app, collect, loopVars, uploadVars, chunkVars, ready, faissFile, docsFile, scriptVars, handlerVars, retriever>>

\* What index.faiss and index.pkl hold when the process dies at point c of
\* save_local(index_path), which writes index.faiss and then index.pkl in
\* place: before the first write, inside it, between the two, or inside
\* the second.
CrashPoints == {"before_save", "in_faiss", "after_faiss", "in_pkl"}

SaveCutShort(db, c) ==
    CASE c = "before_save" -> <<lcFaiss, lcPkl>>
      [] c = "in_faiss" -> <<CorruptFile, lcPkl>>
      [] c = "after_faiss" -> <<File(db.index), lcPkl>>
      [] c = "in_pkl" -> <<File(db.index), CorruptFile>>

\* add_documents_to_vector_store, lines 117-132, with the process killed
\* after the chunks were put into _global_db and before save_local has
\* ended; the process is then started again.
AddCrash ==
    /\ app = "backend"
    /\ \E n \in 1..MaxChunks, m \in LoadModel \ {"fail"}, c \in CrashPoints :
          LET docs == ChunkDocs(Len(globalDb.docs), n)
              new == Db(EmbedAll(docs), docs)
              merged == IF globalDb.set THEN MergeFrom(globalDb, new) ELSE new
          IN  /\ Len(globalDb.docs) + n <= MaxDbLen
              /\ Len(globalDb.index) + n <= MaxDbLen
              /\ lcFaiss' = SaveCutShort(merged, c)[1]
              /\ lcPkl' = SaveCutShort(merged, c)[2]
              /\ bLast' = Last("add", "crashed", docs, globalDb, "none", c)
    /\ embModel' = "none"
    /\ globalDb' = NoDb
    /\ retriever' = "none"
    /\ UNCHANGED <<app, collect, loopVars, uploadVars, chunkVars, ready, faissFile, docsFile,
                   scriptVars, handlerVars>>

\* The server process is started again: the module-level globals are
\* None, the index directory is as it was left.
Restart ==
    /\ app = "backend"
    /\ embModel' = "none"
    /\ globalDb' = NoDb
    /\ retriever' = "none"
    /\ bLast' = NoLast
    /\ UNCHANGED <<app, collect, loopVars, uploadVars, chunkVars, ready, diskVars, scriptVars, handlerVars>>

----------------------------------------------------------------------------
(* The backend's event loop: ask_question and add_documents_to_vector_store
   are coroutines of one event loop thread, and neither awaits anything
   between its first and its last statement *)

\* A POST /ask is accepted by the server; its coroutine waits for the
\* event loop thread.
AskArrives ==
    /\ app = "backend"
    /\ asks < MaxAsks
    /\ asks' = asks + 1
    /\ UNCHANGED <<app, collect, loop, uploadVars, chunkVars, ready, diskVars, scriptVars,
                   handlerVars, backendVars>>

\* The event loop thread enters add_documents_to_vector_store (lines
\* 83-123) and runs FAISS.from_documents, which embeds the chunks.
AddEmbedStart ==
    /\ app = "backend"
    /\ loop = "idle"
    /\ loop' = "add"
    /\ UNCHANGED <<app, collect, asks, uploadVars, chunkVars, ready, diskVars, scriptVars,
                   handlerVars, backendVars>>

\* The embedding returns and the rest of the add (lines 124-138) runs;
\* the coroutine ends and the thread is free again.
AddEmbedFinish ==
    /\ app = "backend"
    /\ loop = "add"
    /\ AddToVectorStore
    /\ loop' = "idle"
    /\ UNCHANGED <<app, collect, asks, uploadVars, chunkVars, ready, faissFile, docsFile,
                   scriptVars, handlerVars, retriever>>

\* The event loop thread runs the coroutine of a waiting /ask request,
\* lines 100-171, from its first statement to its return.
AskServed ==
    /\ app = "backend"
    /\ loop = "idle"
    /\ asks > 0
    /\ AskRetrieve
    /\ asks' = asks - 1
    /\ UNCHANGED <<app, collect, loop, uploadVars, chunkVars, ready, faissFile, docsFile,
                   scriptVars, handlerVars>>

----------------------------------------------------------------------------
(* upload_document: routes.py of the backend and documents.py of the API *)

StoredCount == stored["f1"] + stored["f2"]

\* Lines 184-204 (API 26-50): the file type is validated (HTTP 400 before
\* any file is made), then the upload is streamed to uploads/tmp_<uuid>.
\* Opening the tmp_ file or reading the upload may raise.
UploadStart ==
    /\ upload.pc = "idle"
    /\ StoredCount < MaxStored
    /\ \E f \in Files, u \in Users,
          o \in {"ok", "bad_type", "open_fail", "stream_fail"} :
          upload' =
             [NoUpload EXCEPT
                !.file = f, !.user = u,
                !.pc = CASE o = "ok" -> "check"
                         [] o = "bad_type" -> "done"
                         [] OTHER -> "finally",
                !.tmp = o \in {"ok", "stream_fail"},
                !.tmpPath = o # "bad_type",
                !.response = CASE o = "ok" -> "none"
                               [] o = "bad_type" -> "http400"
                               [] OTHER -> "error"]
    /\ UNCHANGED <<app, collect, loopVars, stored, records, chunkVars, ready, diskVars, scriptVars,
                   handlerVars, backendVars>>

\* Lines 208-216 (API 54-61): check_duplicate_document for this hash and
\* user; a document found is answered with is_duplicate=True.
UploadCheck ==
    /\ upload.pc = "check"
    /\ \E ok \in BOOLEAN :
          upload' =
             IF ~ok
             THEN [upload EXCEPT !.pc = "finally", !.response = "error"]
             ELSE IF <<upload.file, upload.user>> \in records
             THEN [upload EXCEPT !.pc = "finally", !.response = "duplicate"]
             ELSE [upload EXCEPT !.pc = "rename"]
    /\ UNCHANGED <<app, collect, loopVars, stored, records, chunkVars, ready, diskVars, scriptVars,
                   handlerVars, backendVars>>

\* Lines 219-222 (API 64-67): os.rename(tmp_path, final_path), then
\* tmp_path = None.
UploadRename ==
    /\ upload.pc = "rename"
    /\ \E ok \in BOOLEAN :
          IF ok
          THEN /\ stored' = [stored EXCEPT ![upload.file] = @ + 1]
               /\ upload' = [upload EXCEPT !.pc = "record", !.tmp = FALSE,
                                           !.tmpPath = FALSE]
          ELSE /\ stored' = stored
               /\ upload' = [upload EXCEPT !.pc = "finally",
                                           !.response = "error"]
    /\ UNCHANGED <<app, collect, loopVars, records, chunkVars, ready, diskVars, scriptVars,
                   handlerVars, backendVars>>

\* Lines 225-234 (API 70-80): crud.create_document; file_hash is a unique
\* column, so a hash another user already has raises, as may the commit.
\* The API answers here; the backend goes on to index the document.
UploadRecord ==
    /\ upload.pc = "record"
    /\ \E ok \in BOOLEAN :
          IF ok /\ ~(\E u \in Users : <<upload.file, u>> \in records)
          THEN /\ records' = records \cup {<<upload.file, upload.user>>}
               /\ upload' = IF app = "backend"
                            THEN [upload EXCEPT !.pc = "index"]
                            ELSE [upload EXCEPT !.pc = "finally",
                                                !.response = "ok"]
          ELSE /\ records' = records
               /\ upload' = [upload EXCEPT !.pc = "finally",
                                           !.response = "error"]
    /\ UNCHANGED <<app, collect, loopVars, stored, chunkVars, ready, diskVars, scriptVars,
                   handlerVars, backendVars>>

\* Lines 237-248 with process_document_to_vector_store (lines 28-94): the
\* text is extracted (which may raise), a text that is blank is not added,
\* any other text is given to add_documents_to_vector_store; an exception
\* is logged and the upload is answered as successful.
UploadIndex ==
    /\ upload.pc = "index"
    /\ app = "backend"
    /\ \E e \in {"extract_fail", "blank", "add"} :
          IF e = "add"
          THEN /\ AddToVectorStore
               /\ upload' = [upload EXCEPT
                                !.pc = "finally", !.response = "ok",
                                !.indexing = IF bLast'.outcome = "ok"
                                             THEN "ok" ELSE "failed"]
          ELSE /\ UNCHANGED <<embModel, globalDb, lcFaiss, lcPkl, bLast>>
               /\ upload' = [upload EXCEPT
                                !.pc = "finally", !.response = "ok",
                                !.indexing = IF e = "blank" THEN "skipped"
                                             ELSE "failed"]
    /\ UNCHANGED <<app, collect, loopVars, stored, records, chunkVars, ready, faissFile, docsFile,
                   scriptVars, handlerVars, retriever>>

\* A finally block that removed nothing.
TmpKept(tmpPath, tmp) == tmp

\* Whether the tmp_ file exists after the finally block: it is removed
\* when tmp_path is still set and the file exists.
TmpAfterFinally(tmpPath, tmp) == IF tmpPath /\ tmp THEN FALSE ELSE tmp

\* Lines 250-254 (API 87-91): the finally block.
UploadFinally ==
    /\ upload.pc = "finally"
    /\ upload' = [upload EXCEPT !.pc = "done",
                                !.tmp = TmpAfterFinally(upload.tmpPath, upload.tmp)]
    /\ UNCHANGED <<app, collect, loopVars, stored, records, chunkVars, ready, diskVars, scriptVars,
                   handlerVars, backendVars>>

\* The response is sent; the next upload may come.
UploadReturn ==
    /\ upload.pc = "done"
    /\ upload' = NoUpload
    /\ UNCHANGED <<app, collect, loopVars, stored, records, chunkVars, ready, diskVars, scriptVars,
                   handlerVars, backendVars>>

Upload ==
    \/ UploadStart
    \/ UploadCheck
    \/ UploadRename
    \/ UploadRecord
    \/ UploadIndex
    \/ UploadFinally
    \/ UploadReturn

----------------------------------------------------------------------------
(* DocumentService._chunk_text, as generate_embeddings calls it *)

\* The characters of a text: two letters and the blank.
Chars == {"a", "b", " "}

RECURSIVE Texts(_)
\* All texts of at most n characters.
Texts(n) ==
    IF n = 0 THEN {<<>>}
    ELSE LET shorter == Texts(n - 1)
         IN  shorter \cup {Append(t, c) : t \in {u \in shorter : Len(u) = n - 1},
                                           c \in Chars}

\* chunk_size=300 and chunk_overlap=50 of the splitter of embed_pdfs.py,
\* and a text of 900 characters.
SplitterChunkSize == 300
SplitterOverlap == 50
ExampleText == [i \in 1..900 |-> IF i % 7 = 0 THEN " " ELSE "a"]

\* The calls of _chunk_text: (text, chunk_size, chunk_overlap).
ChunkCalls ==
    (Texts(MaxText) \X (1..MaxSize) \X (0..MaxSize))
       \cup {<<ExampleText, SplitterChunkSize, SplitterOverlap>>}

\* A position of a Python slice: negative positions count from the end,
\* and positions outside the text are clipped.
PyPos(text, p) ==
    LET q == IF p < 0 THEN p + Len(text) ELSE p
    IN  IF q < 0 THEN 0 ELSE IF q > Len(text) THEN Len(text) ELSE q

\* text[start:end]
PySlice(text, start, end) ==
    LET s == PyPos(text, start)
        e == PyPos(text, end)
    IN  IF s < e THEN SubSeq(text, s + 1, e) ELSE <<>>

\* Lines 471-474: chunks = [], start = 0, and the first test of the loop.
ChunkStart ==
    /\ app = "backend"
    /\ ckPc = "idle"
    /\ \E call \in ChunkCalls :
          /\ ckText' = call[1]
          /\ ckSize' = call[2]
          /\ ckOverlap' = call[3]
          /\ ckPc' = IF 0 < Len(call[1]) THEN "loop" ELSE "done"
    /\ ckStart' = 0
    /\ ckChunks' = <<>>
    /\ UNCHANGED <<app, collect, loopVars, uploadVars, ready, diskVars, scriptVars, handlerVars, backendVars>>

\* Lines 475-482: one pass of the loop body, then the break test and the
\* loop test, which are the same test.
ChunkStep ==
    /\ ckPc = "loop"
    /\ Len(ckChunks) < MaxIter
    /\ LET end == ckStart + ckSize
           start == end - ckOverlap
       IN  /\ ckChunks' = Append(ckChunks, PySlice(ckText, ckStart, end))
           /\ ckStart' = start
           /\ ckPc' = IF start >= Len(ckText) THEN "done" ELSE "loop"
    /\ UNCHANGED <<app, collect, loopVars, uploadVars, ready, ckText, ckSize, ckOverlap, diskVars, scriptVars,
                   handlerVars, backendVars>>

\* Line 484 and generate_embeddings lines 248-254: the chunks are returned
\* and one embedding is made for each; the service takes the next call.
ChunkReturn ==
    /\ ckPc = "done"
    /\ ckPc' = "idle"
    /\ ckText' = <<>>
    /\ ckSize' = 0
    /\ ckOverlap' = 0
    /\ ckStart' = 0
    /\ ckChunks' = <<>>
    /\ UNCHANGED <<app, collect, loopVars, uploadVars, ready, diskVars, scriptVars, handlerVars, backendVars>>

----------------------------------------------------------------------------
(* Specifications *)

\* Ingestion concurrent with one searching request.
NextIngest ==
    \/ Script
    \/ Search("h1")
    \/ HandlerReturn("h1")

\* Storing and deleting requests concurrent with each other.
NextStore ==
    \E h \in Handlers : Store(h) \/ Delete(h) \/ HandlerReturn(h)

\* The backend application.
NextBackend ==
    \/ AskQuestion
    \/ AddDocuments
    \/ AddCrash
    \/ Restart

\* Either application with its searches.
Next ==
    \/ NextIngest
    \/ NextBackend

SpecIngest == Init /\ [][NextIngest]_vars

SpecStore == Init /\ [][NextStore]_vars

SpecBackend == Init /\ [][NextBackend]_vars

Spec == Init /\ [][Next]_vars

\* The chunker of the document service.
NextChunk ==
    \/ ChunkStart
    \/ ChunkStep
    \/ ChunkReturn

SpecChunk == Init /\ [][NextChunk]_vars

\* Uploads, with the questions of the backend.
NextUpload ==
    \/ Upload
    \/ AskQuestion

SpecUpload == Init /\ [][NextUpload]_vars

\* An ingestion run with the loops that collect its chunks.
NextCollect ==
    \/ Collect
    \/ ScWriteIndex
    \/ ScWriteDocs
    \/ ScFallbackIndex
    \/ ScFallbackDocs

SpecCollect == Init /\ [][NextCollect]_vars

\* Questions and adds on the backend's event loop.
NextLoop ==
    \/ AskArrives
    \/ AddEmbedStart
    \/ AddEmbedFinish
    \/ AskServed

SpecLoop == Init /\ [][NextLoop]_vars

----------------------------------------------------------------------------
(* Properties *)

SearchDone(h) == hpc[h] = "done" /\ harg[h].op = "search"
StoreDone(h) == hpc[h] = "done" /\ harg[h].op = "store"
DeleteDone(h) == hpc[h] = "done" /\ harg[h].op = "delete"

BothReadable(a, b) == a.st = "ok" /\ b.st = "ok"

RECURSIVE NoRepeat(_)
NoRepeat(seq) ==
    IF seq = <<>> THEN TRUE
    ELSE /\ \A i \in 2..Len(seq) : seq[i] # Head(seq)
         /\ NoRepeat(Tail(seq))

Contains(seq, d) == \E i \in 1..Len(seq) : seq[i] = d

\* C1: whenever no ingestion run is in the middle of its writes, the
\* Vector Index and the Chunk Catalog have the same length: in the
\* persisted pairs and in every index held in memory.
C1_LengthsEqual ==
    /\ scPc = "idle" /\ BothReadable(faissFile, docsFile)
          => Len(faissFile.data) = Len(docsFile.data)
    /\ BothReadable(lcFaiss, lcPkl) => Len(lcFaiss.data) = Len(lcPkl.data)
    /\ \A h \in Handlers :
          hloc[h].kind # "none" => Len(hloc[h].index) = Len(hloc[h].docs)
    /\ Len(globalDb.index) = Len(globalDb.docs)

\* C2: an add that raised left _global_db as it was before the batch; an
\* add that succeeded has every chunk of the batch in _global_db and in
\* the persisted index.
C2_AddAtomic ==
    bLast.op = "add" =>
       IF bLast.outcome = "raised"
       THEN /\ globalDb = bLast.pre
            /\ \A i \in 1..Len(bLast.out) : ~Contains(globalDb.docs, bLast.out[i])
       ELSE \A i \in 1..Len(bLast.out) :
               /\ Contains(globalDb.docs, bLast.out[i])
               /\ lcPkl.st = "ok" /\ Contains(lcPkl.data, bLast.out[i])

\* C3: when delete_collection(X) has returned True, the persisted Chunk
\* Catalog holds no chunk of X and has the length of the Vector Index.
C3_DeleteRemoves ==
    \A h \in Handlers :
       DeleteDone(h) /\ hret[h].val =>
          /\ FilterColl(docsFile.data, harg[h].coll) = <<>>
          /\ BothReadable(faissFile, docsFile)
                => Len(faissFile.data) = Len(docsFile.data)

\* C4: the index and the documents a search works on are one version of
\* the pair: the vectors are those of exactly these documents.
C4_SearchSeesOneVersion ==
    \A h \in Handlers :
       hloc[h].kind = "custom" => hloc[h].index = EmbedAll(hloc[h].docs)

\* C5: when two store_documents calls have both returned True, the index
\* they saved holds the documents of both.
C5_NoLostBatch ==
    (\A h \in Handlers : StoreDone(h) /\ hret[h].val) =>
       \A h \in Handlers : \A i \in 1..Len(harg[h].batch) :
          lcPkl.st = "ok" /\ Contains(lcPkl.data, harg[h].batch[i])

\* C6: at every instant the two artifacts on disk are a complete pair:
\* both absent, or both present with the vectors of these documents.
C6_PairAtomic ==
    /\ faissFile.st = docsFile.st
    /\ faissFile.st # "corrupt"
    /\ faissFile.data = EmbedAll(docsFile.data)

\* C7: a load that has finished holds either artifacts whose vector count
\* equals the row count, or the fresh index of exactly one sentinel chunk.
C7_LoadRecovers ==
    \A h \in Handlers :
       hpc[h] = "search" =>
          IF hloc[h].kind = "custom"
          THEN Len(hloc[h].index) = Len(hloc[h].docs)
          ELSE hloc[h] = SentinelLoc

\* C8: a search with k larger than the n chunks of the index returns
\* exactly the n chunks, each once.
C8_SearchAllAvailable ==
    \A h \in Handlers :
       /\ SearchDone(h) /\ hret[h].embedded /\ harg[h].coll = NoColl
       /\ hloc[h].kind # "none"
       /\ Len(hloc[h].index) = Len(hloc[h].docs)
       /\ harg[h].k > Len(hloc[h].docs)
       => /\ Len(hret[h].out) = Len(hloc[h].docs)
          /\ NoRepeat(hret[h].out)

\* C9: a retrieve whose embedding step failed, or whose index holds only
\* the sentinel chunk, returns the empty sequence, and a question whose
\* search fails is not answered with an error response.
C9_RetrieveDegrades ==
    /\ \A h \in Handlers :
          SearchDone(h) /\ (~hret[h].embedded \/ hloc[h].kind = "sentinel")
             => hret[h].out = <<>>
    /\ bLast.op = "ask" =>
          /\ bLast.outcome # "http500"
          /\ bLast.kind = "db" /\ globalDb = SentinelDb => bLast.out = <<>>

\* C10: a search on an index that holds only the sentinel chunk, for any
\* query vector and any k >= 1, returns at most one result and does not
\* raise.
C10_SentinelSearch ==
    /\ \A h \in Handlers :
          SearchDone(h) /\ hloc[h] = SentinelLoc =>
             /\ hret[h].st = "returned"
             /\ Len(hret[h].out) <= 1
    /\ bLast.op = "ask" /\ bLast.kind = "db" /\ globalDb = SentinelDb
       /\ bLast.why # "embed"
          => /\ bLast.outcome = "ok"
             /\ Len(bLast.out) <= 1

\* C10 witness: a search with k = 5 on the sentinel index returned its one
\* chunk.
C10_Witness ==
    \E h \in Handlers :
       /\ SearchDone(h) /\ hloc[h] = SentinelLoc
       /\ harg[h].k = DefaultK /\ hret[h].embedded
       /\ Len(hret[h].out) = 1

Min(a, b) == IF a <= b THEN a ELSE b

\* C11: a search with a collection_id, on a pair whose vectors are those of
\* its documents and which holds at least k chunks, returns only chunks of
\* that collection, at most k of them, and as many as min(k, chunks of
\* the collection in the index).
C11_FilterFillsK ==
    \A h \in Handlers :
       /\ SearchDone(h) /\ hret[h].embedded /\ harg[h].coll # NoColl
       /\ hloc[h].kind = "custom"
       /\ hloc[h].index = EmbedAll(hloc[h].docs)
       /\ harg[h].k <= Len(hloc[h].docs)
       => /\ \A i \in 1..Len(hret[h].out) : hret[h].out[i].coll = harg[h].coll
          /\ Len(hret[h].out) <= harg[h].k
          /\ Len(hret[h].out) =
                Min(harg[h].k, Len(FilterColl(hloc[h].docs, harg[h].coll)))

\* C13: an index a query can operate on is never empty: every persisted
\* artifact that can be read holds at least one row, and every index a
\* search holds in memory has at least one vector and one document.
C13_NeverEmpty ==
    /\ faissFile.st = "ok" => Len(faissFile.data) >= 1
    /\ docsFile.st = "ok" => Len(docsFile.data) >= 1
    /\ lcFaiss.st = "ok" => Len(lcFaiss.data) >= 1
    /\ lcPkl.st = "ok" => Len(lcPkl.data) >= 1
    /\ \A h \in Handlers :
          hpc[h] = "search" => Len(hloc[h].index) >= 1 /\ Len(hloc[h].docs) >= 1
    /\ globalDb.set => Len(globalDb.index) >= 1 /\ Len(globalDb.docs) >= 1

\* C14: when delete_collection(c) has returned True with no other request
\* in flight, the catalog is the catalog the delete read with the chunks
\* of c removed: documents.pkl, and the pair saved by the delete, hold
\* exactly the survivors, once each, in their order, with the vectors of
\* these survivors.
C14_DeleteFrame ==
    \A h \in Handlers :
       /\ DeleteDone(h) /\ hret[h].val
       /\ \A g \in Handlers \ {h} : hpc[g] = "idle"
       => /\ docsFile.data = harg[h].batch
          /\ faissFile.data = EmbedAll(harg[h].batch)
          /\ lcPkl.st = "ok" => /\ lcPkl.data = harg[h].batch
                                 /\ lcFaiss.data = EmbedAll(harg[h].batch)

\* C15: what a save persisted is what a load from the same directory
\* reads: after store_documents has returned True with no other request
\* in flight, the pair get_retriever reads (faiss.index, documents.pkl)
\* holds the documents and vectors that were saved, in their order; and
\* after a successful add of the backend the pair load_local reads holds
\* the documents of _global_db.
C15_RoundTrip ==
    /\ \A h \in Handlers :
          /\ StoreDone(h) /\ hret[h].val
          /\ \A g \in Handlers \ {h} : hpc[g] = "idle"
          => /\ BothReadable(faissFile, docsFile)
             /\ docsFile.data = hloc[h].docs \o harg[h].batch
             /\ faissFile.data = EmbedAll(hloc[h].docs \o harg[h].batch)
    /\ bLast.op = "add" /\ bLast.outcome = "ok"
          => /\ CanLoad
             /\ Db(lcFaiss.data, lcPkl.data) = globalDb

\* A get_retriever reads faiss.index from disk in this step.
ReadsDisk == \E h \in Handlers : hpc[h] = "read_index" /\ hpc'[h] # "read_index"

\* C16: once a load has made the index ready, no later get_retriever or
\* search reads the artifacts from disk again, and a later question
\* leaves the in-memory index and the artifacts as they are.
C16_LoadOnce ==
    [][/\ ready => ~ReadsDisk
       /\ globalDb.set /\ bLast'.op = "ask"
             => UNCHANGED <<globalDb, lcFaiss, lcPkl>>]_vars

\* C17: a call whose embedding step fails ends in an error outcome and
\* leaves the index as it was: a search or store of the API, and an add or
\* (with the retriever already created) a question of the backend, report
\* the failure and change neither the in-memory index nor the artifacts.
C17_ProviderError ==
    [][/\ \A h \in Handlers :
             hpc[h] = "search" /\ hpc'[h] = "done" /\ ~hret'[h].embedded
                => hret'[h].st = "error" /\ UNCHANGED diskVars
       /\ \A h \in Handlers :
             hpc[h] = "st_save" /\ hpc'[h] = "done" /\ ~hret'[h].embedded
                => ~hret'[h].val /\ UNCHANGED diskVars
       /\ /\ bLast' # bLast /\ bLast'.why \in {"embed", "model"}
          /\ bLast'.op = "ask" => retriever # "none"
          => /\ bLast'.outcome \in {"raised", "http500"}
             /\ UNCHANGED <<globalDb, lcFaiss, lcPkl>>]_vars

\* text.strip() is empty: the text is empty or holds blanks only.
IsBlank(t) == \A i \in 1..Len(t) : t[i] = " "

\* C18: with overlap < chunk_size, a text that is empty or holds only
\* whitespace gives zero chunks, and no chunk handed on to embedding is
\* empty or whitespace only.
C18_BlankNoChunks ==
    ckPc = "done" /\ ckOverlap < ckSize =>
       /\ IsBlank(ckText) => ckChunks = <<>>
       /\ \A i \in 1..Len(ckChunks) : ~IsBlank(ckChunks[i])

\* The last n characters of c (all of c when it is shorter).
Suffix(c, n) == SubSeq(c, IF Len(c) > n THEN Len(c) - n + 1 ELSE 1, Len(c))

BeginsWith(c, p) == Len(c) >= Len(p) /\ SubSeq(c, 1, Len(p)) = p

RECURSIVE Stitch(_, _)
\* The chunks put together again, each but the first without its first n
\* characters.
Stitch(chunks, n) ==
    IF chunks = <<>> THEN <<>>
    ELSE IF Len(chunks) = 1 THEN chunks[1]
    ELSE LET last == chunks[Len(chunks)]
         IN  Stitch(SubSeq(chunks, 1, Len(chunks) - 1), n)
                \o SubSeq(last, n + 1, Len(last))

\* C19: with chunk_size > overlap >= 0, every chunk has at most chunk_size
\* characters, every chunk but the first begins with the last `overlap`
\* characters of the chunk before it, the chunks in order cover the text,
\* and the text of 900 characters gives 4 chunks for 300 and 50.
C19_ChunkShape ==
    ckPc = "done" /\ ckOverlap < ckSize =>
       /\ \A i \in 1..Len(ckChunks) : Len(ckChunks[i]) <= ckSize
       /\ \A i \in 2..Len(ckChunks) :
             BeginsWith(ckChunks[i], Suffix(ckChunks[i - 1], ckOverlap))
       /\ Stitch(ckChunks, ckOverlap) = ckText
       /\ ckText = ExampleText /\ ckSize = SplitterChunkSize
             /\ ckOverlap = SplitterOverlap => Len(ckChunks) = 4

\* C20: the chunker ends after finitely many passes of its loop: it never
\* holds more chunks than the text has characters, which is what a loop
\* that advances allows, a chunk_overlap >= chunk_size being refused.
C20_ChunkerTerminates ==
    Len(ckChunks) <= Len(ckText)

\* C21: when the indexing of an uploaded document fails, the upload is
\* answered as successful, the stored file and the document record are
\* kept, and the index in memory and on disk is as it was before.
C21_UploadSurvivesIndexFailure ==
    [][upload.pc = "index" /\ upload'.indexing = "failed"
          => /\ upload'.response = "ok"
             /\ stored'[upload.file] >= 1
             /\ <<upload.file, upload.user>> \in records'
             /\ UNCHANGED <<globalDb, lcFaiss, lcPkl>>]_vars

\* C22: after a crash between the in-memory commit of a batch and the end
\* of its persistence, the persisted index is a consistent pair that holds
\* the chunks from before the batch, with or without the batch; and an
\* index loaded from disk is a consistent pair.
C22_CrashLosesLastBatchOnly ==
    /\ bLast.op = "add" /\ bLast.outcome = "crashed" =>
          /\ lcFaiss.st = lcPkl.st /\ lcFaiss.st # "corrupt"
          /\ lcFaiss.data = EmbedAll(lcPkl.data)
          /\ \/ lcPkl.data = bLast.pre.docs
             \/ lcPkl.data = bLast.pre.docs \o bLast.out
    /\ globalDb.set => globalDb.index = EmbedAll(globalDb.docs)

\* The state of the backend's index manager as a question meets it: Failed
\* with the fallback retriever kept, Ready with _global_db set, else
\* Unloaded.
Manager(r, db) ==
    IF r = "mock" THEN "Failed" ELSE IF db.set THEN "Ready" ELSE "Unloaded"

\* The process starts anew in this step.
ProcessStarts == retriever' = "none" /\ globalDb' = NoDb /\ embModel' = "none"

\* C23: the manager follows Unloaded -> Loading -> Ready -> Rebuilding ->
\* Ready: an add started in Ready ends in Ready; Failed is entered only
\* when the load failed (there was no index that could be loaded) as well
\* as the rebuild from scratch; and within one process nothing leaves
\* Failed.
C23_ManagerStates ==
    [][~ProcessStarts =>
          /\ (Manager(retriever, globalDb) = "Ready" /\ bLast'.op = "add")
                => Manager(retriever', globalDb') = "Ready"
          /\ (Manager(retriever, globalDb) # "Failed"
                /\ Manager(retriever', globalDb') = "Failed")
                => ~(Exists(lcFaiss) /\ CanLoad)
          /\ Manager(retriever, globalDb) = "Failed"
                => Manager(retriever', globalDb') = "Failed"]_vars

\* C24: a question that arrives while an add is embedding its chunks can
\* be served without waiting for the embedding to finish.
C24_SearchDuringEmbedding ==
    loop = "add" /\ asks > 0 => ENABLED AskServed

\* C25: the i-th vector of the persisted index is the embedding of the
\* i-th catalog row, and a search over such a pair hydrates only valid
\* positions: it returns no more passages than the index has positions
\* to give, the padding of index.search left out.
C25_OrderAndValidPositions ==
    /\ scPc = "idle" /\ BothReadable(faissFile, docsFile)
          /\ Len(faissFile.data) = Len(docsFile.data)
          => faissFile.data = EmbedAll(docsFile.data)
    /\ \A h \in Handlers :
          /\ SearchDone(h) /\ hret[h].embedded /\ harg[h].coll = NoColl
          /\ hloc[h].kind = "custom"
          /\ hloc[h].index = EmbedAll(hloc[h].docs)
          => Len(hret[h].out) <= Min(harg[h].k, Len(hloc[h].index))

C27_AddKeepsPersisted ==
    [][bLast'.op = "add" /\ bLast'.outcome = "ok" /\ BothReadable(lcFaiss, lcPkl)
          => /\ lcPkl'.st = "ok"
             /\ \A i \in 1..Len(lcPkl.data) :
                   lcPkl.data[i].source = "upload"
                      => Contains(lcPkl'.data, lcPkl.data[i])]_vars

\* C28: once _global_db holds uploaded chunks, a question is answered by
\* a retriever over _global_db, whatever retriever was kept before the
\* add.
C28_AddedSearchable ==
    [][/\ bLast'.op = "ask"
       /\ \E i \in 1..Len(globalDb.docs) : globalDb.docs[i].source = "upload"
       => bLast'.kind = "db"]_vars

\* C29: when upload_document is left, by any exit, the tmp_ file it made
\* does not exist: it was renamed to the stored file or removed.  And no
\* step of an upload found to be a duplicate (same hash, same user) adds
\* a stored file or a document record or changes the index.
C29_NoTmpLeft ==
    [][/\ upload'.pc = "done" => ~upload'.tmp
       /\ /\ upload' # upload
          /\ (upload.response = "duplicate" \/ upload'.response = "duplicate")
          => UNCHANGED <<stored, records, globalDb, lcFaiss, lcPkl>>]_vars

\* An upload of a user's own earlier content is over: answered as a
\* duplicate, its tmp_ file made and gone.
C29_Witness ==
    /\ upload.pc = "done" /\ upload.response = "duplicate"
    /\ upload.tmpPath /\ ~upload.tmp
    /\ <<upload.file, upload.user>> \in records

\* C30: an ingestion run goes through at most MAX_PAGES pages of a file,
\* takes at most MAX_CHUNKS_PER_PAGE chunks from a page and collects at
\* most MAX_CHUNKS chunks in all; and the faiss.index it has written at
\* line 203 holds as many vectors as chunks were collected.
C30_LimitsRespected ==
    /\ collect.page <= MAX_PAGES
    /\ collect.taken <= MAX_CHUNKS_PER_PAGE
    /\ collect.total <= MAX_CHUNKS
    /\ Len(scDocs) <= MAX_CHUNKS
    /\ collect.pc = "embed" => collect.emb <= collect.total
    /\ scPc = "write_docs" =>
          /\ faissFile.st = "ok"
          /\ Len(faissFile.data) = Len(scDocs)

\* A run that came to MAX_CHUNKS has written its vectors.
C30_Witness ==
    /\ scPc = "write_docs" /\ Len(scDocs) = MAX_CHUNKS
    /\ faissFile.st = "ok" /\ Len(faissFile.data) = MAX_CHUNKS

====
